---- MODULE Spec2Model ----
(***************************************************************************)
(* A model of the sniper decision engine of rolimons-op-discord-bot:       *)
(*   - SniperEngine (src/src/sniper/engine.py): the run/pause/stop state   *)
(*     machine, the scan loop task(s), the automatic and the manual        *)
(*     purchase path and their shared session counters;                    *)
(*   - PurchaseExecutor (src/src/sniper/executor.py): the gated purchase;  *)
(*   - PreFilter.filter and SnipeScorer.score as pure operators;           *)
(*   - RobloxClient.purchase (src/src/data/roblox_client.py): the HTTP     *)
(*     requests of one purchase call.                                      *)
(* asyncio runs one coroutine at a time, so the code between two awaits    *)
(* is one atomic action; every await is a program position (pc) at which   *)
(* other coroutines may run.                                               *)
(* Six specifications share the state and the actions:                    *)
(*   Spec          the engine under start, stop, pause and resume;         *)
(*   PurchaseSpec  a started engine, /config mode, BUY NOW and the clock;  *)
(*   FaultSpec     the engine while its sources and observers raise;      *)
(*   ExecSpec      the callers of one PurchaseExecutor and the clock;      *)
(*   ScorerSpec    one PreFilter.filter and SnipeScorer.score call;        *)
(*   ClientSpec    the purchase() calls of one RobloxClient.               *)
(***************************************************************************)
EXTENDS Integers, Sequences, FiniteSets, TLC

(***************************************************************************)
(* Bounds of the model.                                                    *)
(***************************************************************************)
\* scan-loop task slots (start() can spawn a loop while another is alive)
MaxTasks == 2
\* listings returned by one MarketSource.get_resellers call
MaxListings == 2
\* cap on stats.purchases_attempted (failed purchases can repeat for ever)
MaxAttempts == 2
\* clock ticks the timed specifications let pass
MaxTicks == 4
\* concurrent PurchaseExecutor.execute callers
MaxCalls == 2
\* concurrent manual_purchase callers (BUY NOW clicks being served)
MaxManual == 1
\* cap on stats.errors (a cycle can fail in every poll interval)
MaxErrors == 2
\* RobloxClient.purchase calls that are made on one client
MaxClientCalls == 2

(***************************************************************************)
(* Configuration (src/src/config.py), in small units.                      *)
(***************************************************************************)
SnipeThreshold == 70
MaxPricePerItem == 3
TotalBudget == 4
MaxPurchasesPerHour == 1
CooldownBetweenPurchases == 3

\* config.strategy_flags: __post_init__ leaves at least QUICK_FLIPS
StrategyFlags == {"QUICK_FLIPS"}
\* config.ugc_mode
UgcMode == "INCLUDE"
\* config.purchase_mode (PURCHASE_MODE=full_auto)
PurchaseMode == "FULL_AUTO"

(***************************************************************************)
(* Time. datetime.utcnow() is a count of ticks since 00:00 of day 0.       *)
(***************************************************************************)
TicksPerHour == 2
HoursPerDay == 24
\* the engine is constructed at 22:00 of day 0
StartTick == 44

Hour(t) == (t \div TicksPerHour) % HoursPerDay

None == -1

(***************************************************************************)
(* Enumerations of src/src/data/models.py (IntEnum values).                *)
(***************************************************************************)
DemandNONE == -1
DemandTERRIBLE == 0
DemandLOW == 1
DemandNORMAL == 2
DemandHIGH == 3
DemandAMAZING == 4

TrendNONE == -1
TrendLOWERING == 0
TrendUNSTABLE == 1
TrendSTABLE == 2
TrendRAISING == 3
TrendFLUCTUATING == 4

(***************************************************************************)
(* Items (src/src/data/models.py, Item). An optional field that is None    *)
(* holds None; ugc_age_days stands for (utcnow() - created_at).days.       *)
(***************************************************************************)
MkItem(id, value, rap, demand, trend, projected, sales) ==
    [item_id |-> id, value |-> value, rap |-> rap, demand |-> demand,
     trend |-> trend, projected |-> projected, hyped |-> FALSE, rare |-> FALSE,
     copies_remaining |-> None, recent_sales_30d |-> sales, is_ugc |-> FALSE,
     ugc_age_days |-> None]

(***************************************************************************)
(* discount_percent = (1 - listing_price / item.value) * 100, and 0.0 when *)
(* value <= 0, in Python floats (IEEE-754 doubles). The model keeps the    *)
(* comparisons discount_percent >= t and discount_percent < t. The         *)
(* quotient is rounded to the nearest double before it is subtracted from  *)
(* 1, so a discount that is exactly t percent can compute to the double    *)
(* next to t: (1 - 8000/10000) * 100 is 19.999999999999996. RoundingAt(t)  *)
(* is the sign of the computed value minus t in that case; it depends on   *)
(* the quotient (100 - t)/100 alone. Away from t the rounding error, a few *)
(* units in the 16th digit, does not change the comparison.                *)
(***************************************************************************)
RoundingAt(t) ==
    CASE t = 5 -> 1        \* (1 - 0.95) * 100 = 5.000000000000004
      [] t = 10 -> -1      \* (1 - 0.9) * 100 = 9.999999999999998
      [] t = 20 -> -1      \* (1 - 0.8) * 100 = 19.999999999999996
      [] t = 30 -> 1       \* (1 - 0.7) * 100 = 30.000000000000004
      [] t = 40 -> 0       \* (1 - 0.6) * 100 = 40.0
      [] t = 50 -> 0       \* (1 - 0.5) * 100 = 50.0

DiscountAtLeast(item, price, t) ==
    IF item.value <= 0 THEN 0 >= t
    ELSE IF (item.value - price) * 100 = t * item.value THEN RoundingAt(t) >= 0
    ELSE (item.value - price) * 100 > t * item.value

(***************************************************************************)
(* PreFilter.filter with the constructor's defaults: the reason of the     *)
(* first rule that matches, "PASSED" when none does.                       *)
(***************************************************************************)
MinDiscount == 20
MinCopies == 5
MinUgcAgeDays == 30

\* the rules after the projected rule
FilterAfterProjected(item, price, ugc_mode, max_price, min_discount) ==
    IF item.value <= 0 THEN "NO_VALUE"
    ELSE IF item.demand = DemandNONE THEN "NO_DEMAND"
    ELSE IF item.demand = DemandTERRIBLE THEN "TERRIBLE_DEMAND"
    ELSE IF item.trend = TrendLOWERING THEN "LOWERING_TREND"
    ELSE IF item.is_ugc /\ ugc_mode = "EXCLUDE" THEN "UGC_EXCLUDED"
    ELSE IF item.is_ugc /\ item.ugc_age_days # None
            /\ item.ugc_age_days < MinUgcAgeDays THEN "UGC_TOO_NEW"
    ELSE IF item.copies_remaining # None
            /\ item.copies_remaining < MinCopies THEN "TOO_ILLIQUID"
    ELSE IF item.recent_sales_30d # None
            /\ item.recent_sales_30d = 0 THEN "NO_SALES"
    ELSE IF price > max_price THEN "PRICE_TOO_HIGH"
    ELSE IF ~DiscountAtLeast(item, price, min_discount) THEN "INSUFFICIENT_DISCOUNT"
    ELSE "PASSED"

\* PreFilter(ugc_mode, min_discount, max_price).filter(item, listing_price)
FilterReasonWith(item, price, ugc_mode, max_price, min_discount) ==
    IF item.projected THEN "PROJECTED"
    ELSE FilterAfterProjected(item, price, ugc_mode, max_price, min_discount)

\* the engine's PreFilter(): the configuration and the defaults
FilterReason(item, price) ==
    FilterReasonWith(item, price, UgcMode, MaxPricePerItem, MinDiscount)

FilterPassed(item, price) == FilterReason(item, price) = "PASSED"

(***************************************************************************)
(* ScoreTier.from_score.                                                   *)
(***************************************************************************)
TierOf(score) ==
    IF score >= 85 THEN "EXCELLENT"
    ELSE IF score >= 70 THEN "GOOD"
    ELSE IF score >= 50 THEN "RISKY"
    ELSE "REJECT"

(***************************************************************************)
(* SnipeScorer.score: the component tables, bonuses, penalties and the     *)
(* strategy modifiers.                                                     *)
(***************************************************************************)
DiscountScore(item, price) ==
    IF DiscountAtLeast(item, price, 50) THEN 30
    ELSE IF DiscountAtLeast(item, price, 40) THEN 25
    ELSE IF DiscountAtLeast(item, price, 30) THEN 20
    ELSE IF DiscountAtLeast(item, price, 20) THEN 10
    ELSE 0

DemandScore(item) ==
    CASE item.demand = DemandAMAZING -> 25
      [] item.demand = DemandHIGH -> 20
      [] item.demand = DemandNORMAL -> 12
      [] item.demand = DemandLOW -> 5
      [] OTHER -> 0

TrendScore(item) ==
    CASE item.trend = TrendRAISING -> 20
      [] item.trend = TrendSTABLE -> 15
      [] item.trend = TrendFLUCTUATING -> 8
      [] item.trend = TrendUNSTABLE -> 3
      [] OTHER -> 0

LiquidityScore(item) ==
    IF item.recent_sales_30d # None
    THEN IF item.recent_sales_30d >= 50 THEN 15
         ELSE IF item.recent_sales_30d >= 20 THEN 12
         ELSE IF item.recent_sales_30d >= 10 THEN 8
         ELSE IF item.recent_sales_30d >= 5 THEN 4
         ELSE 0
    ELSE 6

\* 0.85 <= rap / value <= 1.15 and 0.7 <= rap / value <= 1.3, as rationals
StabilityScore(item) ==
    IF item.rap > 0 /\ item.value > 0
    THEN IF 85 * item.value <= 100 * item.rap /\ 100 * item.rap <= 115 * item.value
         THEN 10
         ELSE IF 70 * item.value <= 100 * item.rap
                 /\ 100 * item.rap <= 130 * item.value
         THEN 5
         ELSE 0
    ELSE 0

BaseScoreWith(item, price, ugc_mode) ==
      DiscountScore(item, price) + DemandScore(item) + TrendScore(item)
    + LiquidityScore(item) + StabilityScore(item)
    + (IF item.rare /\ item.demand >= DemandHIGH THEN 5 ELSE 0)
    + (IF ~item.is_ugc THEN 3 ELSE 0)
    + (IF item.hyped THEN -5 ELSE 0)
    + (IF item.is_ugc /\ ugc_mode = "INCLUDE" THEN -10 ELSE 0)

BaseScore(item, price) == BaseScoreWith(item, price, UgcMode)

QuickFlipsModifier(item) ==
    IF item.recent_sales_30d # None
    THEN IF item.recent_sales_30d >= 20 THEN 15
         ELSE IF item.recent_sales_30d < 5 THEN -10 ELSE 0
    ELSE 0

ValuePlaysModifier(item, price) ==
    IF DiscountAtLeast(item, price, 40) /\ item.trend = TrendSTABLE THEN 20
    ELSE IF DiscountAtLeast(item, price, 40) THEN 10
    ELSE 0

RareHuntingModifier(item) ==
    IF item.rare /\ item.demand >= DemandHIGH THEN 25
    ELSE IF item.rare /\ item.demand >= DemandNORMAL THEN 15
    ELSE IF ~item.rare THEN -5
    ELSE 0

StrategyModifier(item, price, strategies) ==
      (IF "QUICK_FLIPS" \in strategies THEN QuickFlipsModifier(item) ELSE 0)
    + (IF "VALUE_PLAYS" \in strategies THEN ValuePlaysModifier(item, price) ELSE 0)
    + (IF "RARE_HUNTING" \in strategies THEN RareHuntingModifier(item) ELSE 0)

\* a clamp without its upper end
ClampBelow(x, lo, hi) == IF x < lo THEN lo ELSE x

Clamp(x, lo, hi) == IF x < lo THEN lo ELSE IF x > hi THEN hi ELSE x

\* a scorer without the minimum discount check
RejectsDiscountNever(item, price) == FALSE

\* `if discount_percent < 20`: score 0, tier REJECT
RejectsDiscount(item, price) == ~DiscountAtLeast(item, price, 20)

\* SnipeScorer(strategies, ugc_mode).score(item, listing_price)
ScoreWith(item, price, strategies, ugc_mode) ==
    IF RejectsDiscount(item, price) THEN 0
    ELSE Clamp(BaseScoreWith(item, price, ugc_mode)
               + StrategyModifier(item, price, strategies), 0, 100)

TierWith(item, price, strategies, ugc_mode) ==
    IF RejectsDiscount(item, price) THEN "REJECT"
    ELSE TierOf(ScoreWith(item, price, strategies, ugc_mode))

\* the engine's SnipeScorer(): the configured strategies and UGC mode
Score(item, price) == ScoreWith(item, price, StrategyFlags, UgcMode)

Tier(item, price) == TierWith(item, price, StrategyFlags, UgcMode)

(***************************************************************************)
(* The catalog snapshot CatalogSource returns (rolimons.get_all_items):    *)
(* two items the coarse candidate filter keeps and a projected one it      *)
(* drops. Listing prices are 2 (50% off), 3 (25% off) and 4 (no discount). *)
(* The item that scores less comes first in the snapshot, so a cycle can   *)
(* collect its opportunities in rising score.                              *)
(***************************************************************************)
Catalog ==
    << MkItem(2, 4, 4, DemandNORMAL, TrendUNSTABLE, FALSE, None),
       MkItem(1, 4, 4, DemandNORMAL, TrendFLUCTUATING, FALSE, 30),
       MkItem(3, 4, 4, DemandHIGH, TrendSTABLE, TRUE, 30) >>

Prices == {2, 3, 4}

ItemById(id) == CHOOSE it \in {Catalog[i] : i \in DOMAIN Catalog} : it.item_id = id

IsCandidate(item) == item.demand >= 2 /\ item.value > 0 /\ ~item.projected

MaxCandidates == 50

RECURSIVE SelectCandidates(_)
SelectCandidates(items) ==
    IF items = << >> THEN << >>
    ELSE IF IsCandidate(Head(items))
         THEN << Head(items) >> \o SelectCandidates(Tail(items))
         ELSE SelectCandidates(Tail(items))

Candidates == SubSeq(SelectCandidates(Catalog), 1,
                     IF Len(SelectCandidates(Catalog)) < MaxCandidates
                     THEN Len(SelectCandidates(Catalog)) ELSE MaxCandidates)


(***************************************************************************)
(* State.                                                                  *)
(***************************************************************************)
VARIABLES
    \* SniperEngine fields
    state,                \* self.state
    stop_event,           \* self._stop_event
    task,                 \* self._task: a task slot, 0 for None
    purchase_mode,        \* self.purchase_mode
    alerted,              \* self._alerted_items
    session_spent,        \* self._session_spent
    purchases_this_hour,  \* self._purchases_this_hour
    stats,                \* self.stats (the purchase counters)
    \* coroutines
    loops,                \* the _run_loop tasks: position and locals
    manual,               \* manual_purchase calls in progress
    stopper,              \* the stop() call in progress
    now,                  \* datetime.utcnow()
    \* history of the run
    opp_count,            \* Opportunity objects constructed, per dedup key
    observed,             \* keys passed to the opportunity observer
    bought,               \* the successful purchases: price and time
    \* PurchaseExecutor fields
    x_session_spent,        \* self._session_spent
    x_purchase_times,       \* self._purchase_times
    x_last_purchase_time,   \* self._last_purchase_time, None before the first
    x_purchase_records,     \* self._purchase_records: the success flag of each
    calls,                  \* execute() calls: position, listing, current_listings, result
    \* PreFilter and SnipeScorer
    probe,                  \* one filter() and score() call: arguments and results
    \* RobloxClient
    client                  \* self._roblosecurity, self._xsrf_token and the purchase() call

engineVars == << state, stop_event, task, purchase_mode, alerted, session_spent,
                 purchases_this_hour, stats, loops, manual, stopper,
                 opp_count, observed, bought >>

execVars == << x_session_spent, x_purchase_times, x_last_purchase_time,
               x_purchase_records, calls >>

vars == << engineVars, execVars, now, probe, client >>

TaskIds == 1..MaxTasks
ManualIds == 1..MaxManual

PurchaseModes == {"ALERT_CONFIRM", "FULL_AUTO", "HYBRID"}

\* PurchaseResult values MarketSource.purchase answers with
PurchaseResults == {"SUCCESS", "LISTING_GONE"}

Keys == {<< Candidates[i].item_id, p >> : i \in DOMAIN Candidates, p \in Prices}

MkListing(id, p) == [item_id |-> id, price |-> p]

MkOpportunity(item, listing) ==
    [item_id |-> item.item_id, price |-> listing.price,
     score |-> Score(item, listing.price), tier |-> Tier(item, listing.price)]

KeyOf(opp) == << opp.item_id, opp.price >>

\* what get_resellers may answer: at most MaxListings listings, by price
ListingLists(id) ==
    {<< >>} \cup
    UNION {{ll \in [1..n -> {MkListing(id, p) : p \in Prices}] :
              \A i \in 1..(n - 1) : ll[i].price <= ll[i + 1].price} : n \in 1..MaxListings}

FreshStats ==
    [purchases_attempted |-> 0, purchases_successful |-> 0, total_spent |-> 0,
     errors |-> 0]

\* a _run_loop task: its position, the index of the candidate being fetched,
\* the cycle's `opportunities`, the should_buy of the opportunity handled last,
\* the keys that the dedup check skipped in the last answer, and whether the
\* observer awaited last raised into its `except Exception` (which logs it)
LoopAt(pc, idx, opps) ==
    [pc |-> pc, idx |-> idx, opps |-> opps, should_buy |-> FALSE, skipped |-> {},
     caught |-> FALSE]

NoLoop == LoopAt("none", 0, << >>)
DoneLoop == LoopAt("done", 0, << >>)
\* no opportunity, no listing, no result yet
NoOpportunity == [item_id |-> None, price |-> None, score |-> None, tier |-> "REJECT"]
IdleManual == [pc |-> "idle", opp |-> NoOpportunity]
IdleStopper == [pc |-> "idle", t |-> 0]

\* what get_resellers may answer the executor: listings with their product id
ProductIds == {1, 2}

MkFullListing(id, p, q) == [item_id |-> id, price |-> p, product_id |-> q]

FullListings(id) == {MkFullListing(id, p, q) : p \in Prices, q \in ProductIds}

FullListingLists(id) ==
    {<< >>} \cup
    UNION {{ll \in [1..n -> FullListings(id)] :
              \A i \in 1..(n - 1) : ll[i].price <= ll[i + 1].price} : n \in 1..MaxListings}

CallIds == 1..MaxCalls

NoListing == [item_id |-> None, price |-> None, product_id |-> None]
NoResult == [success |-> FALSE, purchase_result |-> "NONE", record |-> FALSE]
IdleCall == [pc |-> "idle", listing |-> NoListing, current |-> << >>, result |-> NoResult]

Alive(t) == loops[t].pc \notin {"none", "done"}

\* no filter() or score() call
NoProbe == [pc |-> "none"]

\* the engine and the executor after their constructors
Constructed ==
    /\ state = "STOPPED"
    /\ stop_event = FALSE
    /\ task = 0
    /\ purchase_mode = PurchaseMode
    /\ alerted = {}
    /\ session_spent = 0
    /\ purchases_this_hour = << >>
    /\ stats = FreshStats
    /\ loops = [t \in TaskIds |-> NoLoop]
    /\ manual = [m \in ManualIds |-> IdleManual]
    /\ stopper = IdleStopper
    /\ now = StartTick
    /\ opp_count = [k \in Keys |-> 0]
    /\ observed = {}
    /\ bought = << >>
    /\ x_session_spent = 0
    /\ x_purchase_times = << >>
    /\ x_last_purchase_time = None
    /\ x_purchase_records = << >>
    /\ calls = [c \in CallIds |-> IdleCall]

\* RobloxClient(roblosecurity) after its constructor: no XSRF token, no call
IdleClient(cookie) ==
    [pc |-> "idle", cookie |-> cookie, token |-> FALSE, product_id |-> None,
     price |-> None, posts |-> 0, result |-> "NONE", done |-> 0]

Init ==
    /\ Constructed
    /\ probe = NoProbe
    /\ client = IdleClient(TRUE)

(***************************************************************************)
(* SniperEngine._check_budget and _check_purchase_rate.                    *)
(***************************************************************************)
CheckBudget(price, spent) ==
    IF price > MaxPricePerItem THEN FALSE
    ELSE IF spent + price > TotalBudget THEN FALSE
    ELSE TRUE

\* now.replace(hour=now.hour - 1 if now.hour > 0 else 23)
HourAgoReplace(t) ==
    IF Hour(t) > 0 THEN t - TicksPerHour
    ELSE t + (HoursPerDay - 1) * TicksPerHour

RECURSIVE KeepAfter(_, _)
KeepAfter(times, limit) ==
    IF times = << >> THEN << >>
    ELSE IF Head(times) > limit
         THEN << Head(times) >> \o KeepAfter(Tail(times), limit)
         ELSE KeepAfter(Tail(times), limit)

\* the list _check_purchase_rate leaves in self._purchases_this_hour
PrunedPurchases(times, t) == KeepAfter(times, HourAgoReplace(t))

CheckPurchaseRate(times, t) == Len(PrunedPurchases(times, t)) < MaxPurchasesPerHour

(***************************************************************************)
(* start(), stop(), pause(), resume(), and /config mode.                   *)
(***************************************************************************)
StartAllowed(s) == s \notin {"RUNNING", "STARTING"}

\* a start() that begins a new session: it resets the budget tracking too
StartResetsSession ==
    /\ StartAllowed(state)
    /\ \E t \in TaskIds :
         /\ ~Alive(t)
         /\ stopper.t # t
         /\ \A u \in TaskIds : (u < t) => (Alive(u) \/ stopper.t = u)
         /\ loops' = [loops EXCEPT ![t] = LoopAt("start", 0, << >>)]
         /\ task' = t
    /\ stop_event' = FALSE
    /\ stats' = FreshStats
    /\ state' = "RUNNING"
    /\ session_spent' = 0
    /\ purchases_this_hour' = << >>
    /\ UNCHANGED << purchase_mode, alerted, manual, stopper, now, opp_count,
                    observed, bought >>
    /\ UNCHANGED << execVars, probe, client >>

\* asyncio.create_task(self._run_loop()): the new task has not run yet
Start ==
    /\ StartAllowed(state)
    /\ \E t \in TaskIds :
         /\ ~Alive(t)
         /\ stopper.t # t
         /\ \A u \in TaskIds : (u < t) => (Alive(u) \/ stopper.t = u)
         /\ loops' = [loops EXCEPT ![t] = LoopAt("start", 0, << >>)]
         /\ task' = t
    /\ stop_event' = FALSE
    /\ stats' = FreshStats
    /\ state' = "RUNNING"
    /\ UNCHANGED << purchase_mode, alerted, session_spent, purchases_this_hour,
                    manual, stopper, now, opp_count, observed, bought >>
    /\ UNCHANGED << execVars, probe, client >>

\* Event.set() resolves the future of every task waiting in Event.wait()
WakeWaiters(ls) ==
    [t \in TaskIds |-> IF ls[t].pc = "idle_wait" THEN [ls[t] EXCEPT !.pc = "woken"]
                       ELSE ls[t]]

\* stop() up to its await: wait_for on a finished task returns at once
StopCall ==
    /\ stopper.pc = "idle"
    /\ state # "STOPPED"
    /\ stop_event' = TRUE
    /\ loops' = WakeWaiters(loops)
    /\ IF task # 0 /\ Alive(task)
       THEN /\ state' = "STOPPING"
            /\ stopper' = [pc |-> "wait", t |-> task]
       ELSE /\ state' = "STOPPED"
            /\ stopper' = IdleStopper
    /\ UNCHANGED << task, purchase_mode, alerted, session_spent, purchases_this_hour,
                    stats, manual, now, opp_count, observed, bought >>
    /\ UNCHANGED << execVars, probe, client >>

\* the awaited task has finished inside the grace period
StopTaskDone ==
    /\ stopper.pc = "wait"
    /\ ~Alive(stopper.t)
    /\ state' = "STOPPED"
    /\ stopper' = IdleStopper
    /\ UNCHANGED << stop_event, task, purchase_mode, alerted, session_spent,
                    purchases_this_hour, stats, loops, manual, now, opp_count,
                    observed, bought >>
    /\ UNCHANGED << execVars, probe, client >>

\* the grace period expires: wait_for cancels the task it awaits, then
\* stop() cancels self._task and awaits it
StopTimeout ==
    /\ stopper.pc = "wait"
    /\ Alive(stopper.t)
    /\ loops' = [t \in TaskIds |->
                   IF t = stopper.t \/ (t = task /\ Alive(t)) THEN DoneLoop ELSE loops[t]]
    /\ IF task = stopper.t
       THEN /\ state' = "STOPPED"
            /\ stopper' = IdleStopper
       ELSE /\ state' = state
            /\ stopper' = [pc |-> "wait_cancelled", t |-> task]
    /\ UNCHANGED << stop_event, task, purchase_mode, alerted, session_spent,
                    purchases_this_hour, stats, manual, now, opp_count, observed,
                    bought >>
    /\ UNCHANGED << execVars, probe, client >>

\* await self._task raises CancelledError, which stop() swallows
StopCancelled ==
    /\ stopper.pc = "wait_cancelled"
    /\ state' = "STOPPED"
    /\ stopper' = IdleStopper
    /\ UNCHANGED << stop_event, task, purchase_mode, alerted, session_spent,
                    purchases_this_hour, stats, loops, manual, now, opp_count,
                    observed, bought >>
    /\ UNCHANGED << execVars, probe, client >>

Pause ==
    /\ state = "RUNNING"
    /\ state' = "PAUSED"
    /\ UNCHANGED << stop_event, task, purchase_mode, alerted, session_spent,
                    purchases_this_hour, stats, loops, manual, stopper, now,
                    opp_count, observed, bought >>
    /\ UNCHANGED << execVars, probe, client >>

Resume ==
    /\ state = "PAUSED"
    /\ state' = "RUNNING"
    /\ UNCHANGED << stop_event, task, purchase_mode, alerted, session_spent,
                    purchases_this_hour, stats, loops, manual, stopper, now,
                    opp_count, observed, bought >>
    /\ UNCHANGED << execVars, probe, client >>

\* /config mode: bot.engine.purchase_mode = new_mode
ConfigMode ==
    /\ \E m \in PurchaseModes : m # purchase_mode /\ purchase_mode' = m
    /\ UNCHANGED << state, stop_event, task, alerted, session_spent,
                    purchases_this_hour, stats, loops, manual, stopper, now,
                    opp_count, observed, bought >>
    /\ UNCHANGED << execVars, probe, client >>


(***************************************************************************)
(* The scan loop, _run_loop, one action per await that returns.            *)
(***************************************************************************)
\* the head of `while not self._stop_event.is_set()`, up to its first await
LoopHead(l) ==
    IF stop_event THEN DoneLoop
    ELSE IF state = "PAUSED" THEN LoopAt("pause_sleep", 0, << >>)
    ELSE LoopAt("get_items", 0, << >>)

\* after the cycle: wait_for(self._stop_event.wait(), poll_interval_seconds)
EnterIdle == IF stop_event THEN DoneLoop ELSE LoopAt("idle_wait", 0, << >>)

\* insert by score, after the entries that score at least as much (sorted() is stable)
RECURSIVE InsertByScore(_, _)
InsertByScore(sorted, opp) ==
    IF sorted = << >> THEN << opp >>
    ELSE IF Head(sorted).score >= opp.score
         THEN << Head(sorted) >> \o InsertByScore(Tail(sorted), opp)
         ELSE << opp >> \o sorted

\* a cycle that handles its opportunities in the order it found them
KeepFoundOrder(opps) == opps

\* sorted(opportunities, key=lambda o: o.score, reverse=True)
RECURSIVE SortByScoreDesc(_)
SortByScoreDesc(opps) ==
    IF opps = << >> THEN << >>
    ELSE InsertByScore(SortByScoreDesc(SubSeq(opps, 1, Len(opps) - 1)), opps[Len(opps)])

\* _handle_opportunity of the first of `rest` up to the observer's await,
\* or the end of the cycle
HandleNext(rest) ==
    IF rest = << >> THEN EnterIdle
    ELSE LoopAt("on_opportunity", 0, rest)

ObservedAfter(rest) == IF rest = << >> THEN observed ELSE observed \cup {KeyOf(Head(rest))}

\* the next candidate's get_resellers, or the handling of what was collected
NextCandidate(l) ==
    IF l.idx < Len(Candidates)
    THEN LoopAt("get_resellers", l.idx + 1, l.opps)
    ELSE HandleNext(SortByScoreDesc(l.opps))

ObservedAtNext(l) ==
    IF l.idx < Len(Candidates) THEN observed
    ELSE ObservedAfter(SortByScoreDesc(l.opps))

\* a dedup check that never finds the key
AlreadyAlertedNever(key, al) == FALSE

\* `if alert_key in self._alerted_items: continue`
AlreadyAlerted(key, al) == key \in al

\* a scan that makes an Opportunity of whatever passes the pre-filter
QualifiesOnFilter(item, price) == FilterPassed(item, price)

\* `if not filter_result.passed: continue`, then
\* `if score_result.tier == ScoreTier.REJECT: continue`
Qualifies(item, price) == FilterPassed(item, price) /\ Tier(item, price) # "REJECT"

\* the `for listing in listings` body over one answer of get_resellers;
\* `skipped` collects the keys the dedup check made it skip in this answer
RECURSIVE ScanListings(_, _, _)
ScanListings(item, listings, acc) ==
    IF listings = << >> THEN acc
    ELSE LET listing == Head(listings)
             key == << item.item_id, listing.price >>
         IN ScanListings(item, Tail(listings),
              IF AlreadyAlerted(key, acc.alerted)
              THEN [acc EXCEPT !.skipped = @ \cup {key}]
              ELSE IF Qualifies(item, listing.price)
              THEN [alerted |-> acc.alerted \cup {key},
                    opps |-> Append(acc.opps, MkOpportunity(item, listing)),
                    count |-> [acc.count EXCEPT ![key] = @ + 1],
                    skipped |-> acc.skipped]
              ELSE acc)

\* the task starts, the pause sleep ends or the poll interval times out
LoopIterate(t) ==
    /\ loops[t].pc \in {"start", "pause_sleep", "idle_wait"}
    /\ loops' = [loops EXCEPT ![t] = LoopHead(loops[t])]
    /\ UNCHANGED << state, stop_event, task, purchase_mode, alerted, session_spent,
                    purchases_this_hour, stats, manual, stopper, now, opp_count,
                    observed, bought >>
    /\ UNCHANGED << execVars, probe, client >>

\* stop_event.wait() returned: break
LoopWoken(t) ==
    /\ loops[t].pc = "woken"
    /\ loops' = [loops EXCEPT ![t] = DoneLoop]
    /\ UNCHANGED << state, stop_event, task, purchase_mode, alerted, session_spent,
                    purchases_this_hour, stats, manual, stopper, now, opp_count,
                    observed, bought >>
    /\ UNCHANGED << execVars, probe, client >>

\* rolimons.get_all_items() returns the catalog
GetItemsReturn(t) ==
    /\ loops[t].pc = "get_items"
    /\ loops' = [loops EXCEPT ![t] = NextCandidate([pc |-> "get_items", idx |-> 0,
                                                    opps |-> << >>])]
    /\ observed' = ObservedAtNext(LoopAt("get_items", 0, << >>))
    /\ UNCHANGED << state, stop_event, task, purchase_mode, alerted, session_spent,
                    purchases_this_hour, stats, manual, stopper, now, opp_count,
                    bought >>
    /\ UNCHANGED << execVars, probe, client >>

\* roblox.get_resellers(item) returns listings
GetResellersReturn(t) ==
    /\ loops[t].pc = "get_resellers"
    /\ LET item == Candidates[loops[t].idx] IN
       \E listings \in ListingLists(item.item_id) :
         LET r == ScanListings(item, listings,
                    [alerted |-> alerted, opps |-> loops[t].opps, count |-> opp_count,
                     skipped |-> {}])
             l == [loops[t] EXCEPT !.opps = r.opps]
         IN /\ alerted' = r.alerted
            /\ opp_count' = r.count
            /\ IF listings = << >>
               THEN /\ loops' = [loops EXCEPT ![t] = NextCandidate(l)]
                    /\ observed' = ObservedAtNext(l)
               ELSE /\ loops' = [loops EXCEPT ![t] = [l EXCEPT !.pc = "item_sleep",
                                                              !.skipped = r.skipped]]
                    /\ observed' = observed
    /\ UNCHANGED << state, stop_event, task, purchase_mode, session_spent,
                    purchases_this_hour, stats, manual, stopper, now, bought >>
    /\ UNCHANGED << execVars, probe, client >>

\* asyncio.sleep(0.5) between candidates returns
ItemSleepReturn(t) ==
    /\ loops[t].pc = "item_sleep"
    /\ loops' = [loops EXCEPT ![t] = NextCandidate(loops[t])]
    /\ observed' = ObservedAtNext(loops[t])
    /\ UNCHANGED << state, stop_event, task, purchase_mode, alerted, session_spent,
                    purchases_this_hour, stats, manual, stopper, now, opp_count,
                    bought >>
    /\ UNCHANGED << execVars, probe, client >>

\* a FULL_AUTO decision that needs the score above the threshold
ShouldBuyAbove(mode, opp) ==
    IF mode = "FULL_AUTO" THEN opp.score > SnipeThreshold
    ELSE IF mode = "HYBRID" THEN opp.tier = "EXCELLENT"
    ELSE FALSE

\* _handle_opportunity: should_buy under the purchase mode
ShouldBuy(mode, opp) ==
    IF mode = "FULL_AUTO" THEN opp.score >= SnipeThreshold
    ELSE IF mode = "HYBRID" THEN opp.tier = "EXCELLENT"
    ELSE FALSE

\* _handle_opportunity after the observer's try/except, whether the observer
\* returned or raised (`raised`): decide, and _execute_purchase up to its
\* await of roblox.purchase. The loop keeps the local should_buy of the
\* opportunity it handled last.
AfterOpportunityObserver(t, raised) ==
    /\ LET opp == Head(loops[t].opps)
           rest == Tail(loops[t].opps)
           should_buy == ShouldBuy(purchase_mode, opp)
           skipped == [HandleNext(rest) EXCEPT !.should_buy = should_buy,
                                               !.caught = raised]
       IN IF should_buy
          THEN IF ~CheckBudget(opp.price, session_spent)
               THEN /\ loops' = [loops EXCEPT ![t] = skipped]
                    /\ observed' = ObservedAfter(rest)
                    /\ UNCHANGED << purchases_this_hour, stats >>
               ELSE /\ purchases_this_hour' = PrunedPurchases(purchases_this_hour, now)
                    /\ IF ~CheckPurchaseRate(purchases_this_hour, now)
                       THEN /\ loops' = [loops EXCEPT ![t] = skipped]
                            /\ observed' = ObservedAfter(rest)
                            /\ stats' = stats
                       ELSE /\ loops' = [loops EXCEPT ![t].pc = "purchase",
                                                       ![t].should_buy = TRUE,
                                                       ![t].caught = raised]
                            /\ observed' = observed
                            /\ stats' = [stats EXCEPT !.purchases_attempted = @ + 1]
          ELSE /\ loops' = [loops EXCEPT ![t] = skipped]
               /\ observed' = ObservedAfter(rest)
               /\ UNCHANGED << purchases_this_hour, stats >>
    /\ UNCHANGED << state, stop_event, task, purchase_mode, alerted, session_spent,
                    manual, stopper, now, opp_count, bought >>
    /\ UNCHANGED << execVars, probe, client >>

\* the opportunity observer returned
OnOpportunityReturn(t) ==
    /\ loops[t].pc = "on_opportunity"
    /\ AfterOpportunityObserver(t, FALSE)

\* a counter that adds the price whatever the answer
SpentAfterAlways(spent, result, price) == spent + price

\* the counters after roblox.purchase answered `result` for `price`
SpentAfter(spent, result, price) == IF result = "SUCCESS" THEN spent + price ELSE spent

StatsAfter(st, result, price) ==
    IF result = "SUCCESS"
    THEN [st EXCEPT !.purchases_successful = @ + 1, !.total_spent = @ + price]
    ELSE st

TimesAfter(times, result, t) == IF result = "SUCCESS" THEN Append(times, t) ELSE times

BoughtAfter(log, result, price, t) ==
    IF result = "SUCCESS" THEN Append(log, [price |-> price, at |-> t]) ELSE log

\* roblox.purchase answers the automatic path
PurchaseReturn(t) ==
    /\ loops[t].pc = "purchase"
    /\ \E result \in PurchaseResults :
         LET price == Head(loops[t].opps).price
         IN /\ session_spent' = SpentAfter(session_spent, result, price)
            /\ stats' = StatsAfter(stats, result, price)
            /\ purchases_this_hour' = TimesAfter(purchases_this_hour, result, now)
            /\ bought' = BoughtAfter(bought, result, price, now)
    /\ loops' = [loops EXCEPT ![t].pc = "on_purchase"]
    /\ UNCHANGED << state, stop_event, task, purchase_mode, alerted, manual, stopper,
                    now, opp_count, observed >>
    /\ UNCHANGED << execVars, probe, client >>

\* _execute_purchase after the purchase observer's try/except: it returns
\* to the `for opportunity in sorted(...)` of the cycle
AfterPurchaseObserver(t, raised) ==
    /\ loops' = [loops EXCEPT ![t] = [HandleNext(Tail(loops[t].opps))
                                        EXCEPT !.caught = raised]]
    /\ observed' = ObservedAfter(Tail(loops[t].opps))
    /\ UNCHANGED << state, stop_event, task, purchase_mode, alerted, session_spent,
                    purchases_this_hour, stats, manual, stopper, now, opp_count,
                    bought >>
    /\ UNCHANGED << execVars, probe, client >>

\* the purchase observer returned
OnPurchaseReturn(t) ==
    /\ loops[t].pc = "on_purchase"
    /\ AfterPurchaseObserver(t, FALSE)

(***************************************************************************)
(* Exceptions. An await of CatalogSource or MarketSource can raise (the    *)
(* clients catch timeouts and aiohttp.ClientError only), and so can an     *)
(* observer; the innermost enclosing try/except handles the exception.     *)
(***************************************************************************)
\* a scan loop without the try/except around its observer calls
HandlerOfRunLoop(pc) == "_run_loop"

\* the function whose `except Exception` encloses the await at `pc`
HandlerOf(pc) ==
    CASE pc = "on_opportunity" -> "_handle_opportunity"
      [] pc = "on_purchase" -> "_execute_purchase"
      [] OTHER -> "_run_loop"

\* a loop that an exception of the cycle ends
CycleFailsFatal(t) ==
    /\ stats' = [stats EXCEPT !.errors = @ + 1]
    /\ loops' = [loops EXCEPT ![t] = DoneLoop]
    /\ state' = "ERROR"
    /\ UNCHANGED << stop_event, task, purchase_mode, alerted, session_spent,
                    purchases_this_hour, manual, stopper, now, opp_count, observed,
                    bought >>
    /\ UNCHANGED << execVars, probe, client >>

\* `except Exception` of _run_loop: stats.errors += 1, then the poll wait
CycleFails(t) ==
    /\ stats.errors < MaxErrors
    /\ stats' = [stats EXCEPT !.errors = @ + 1]
    /\ loops' = [loops EXCEPT ![t] = EnterIdle]
    /\ UNCHANGED << state, stop_event, task, purchase_mode, alerted, session_spent,
                    purchases_this_hour, manual, stopper, now, opp_count, observed,
                    bought >>
    /\ UNCHANGED << execVars, probe, client >>

\* get_all_items, get_resellers or purchase raises inside the cycle
ScanRaises(t) ==
    /\ loops[t].pc \in {"get_items", "get_resellers", "purchase"}
    /\ CycleFails(t)

\* the opportunity observer raises
OnOpportunityRaises(t) ==
    /\ loops[t].pc = "on_opportunity"
    /\ IF HandlerOf("on_opportunity") = "_handle_opportunity"
       THEN AfterOpportunityObserver(t, TRUE)
       ELSE CycleFails(t)

\* the purchase observer raises
OnPurchaseRaises(t) ==
    /\ loops[t].pc = "on_purchase"
    /\ IF HandlerOf("on_purchase") = "_execute_purchase"
       THEN AfterPurchaseObserver(t, TRUE)
       ELSE CycleFails(t)

(***************************************************************************)
(* manual_purchase, called by the BUY NOW button of an alert.              *)
(***************************************************************************)
ManualCall(m) ==
    /\ manual[m].pc = "idle"
    /\ stats.purchases_attempted < MaxAttempts
    /\ \E k \in observed :
         LET opp == MkOpportunity(ItemById(k[1]), MkListing(k[1], k[2]))
         IN /\ CheckBudget(opp.price, session_spent)
            /\ purchases_this_hour' = PrunedPurchases(purchases_this_hour, now)
            /\ IF ~CheckPurchaseRate(purchases_this_hour, now)
               THEN UNCHANGED << manual, stats >>
               ELSE /\ manual' = [manual EXCEPT ![m] = [pc |-> "purchase", opp |-> opp]]
                    /\ stats' = [stats EXCEPT !.purchases_attempted = @ + 1]
    /\ UNCHANGED << state, stop_event, task, purchase_mode, alerted, session_spent,
                    loops, stopper, now, opp_count, observed, bought >>
    /\ UNCHANGED << execVars, probe, client >>

ManualPurchaseReturn(m) ==
    /\ manual[m].pc = "purchase"
    /\ \E result \in PurchaseResults :
         LET price == manual[m].opp.price
         IN /\ session_spent' = SpentAfter(session_spent, result, price)
            /\ stats' = StatsAfter(stats, result, price)
            /\ purchases_this_hour' = TimesAfter(purchases_this_hour, result, now)
            /\ bought' = BoughtAfter(bought, result, price, now)
    /\ manual' = [manual EXCEPT ![m].pc = "on_purchase"]
    /\ UNCHANGED << state, stop_event, task, purchase_mode, alerted, loops, stopper,
                    now, opp_count, observed >>
    /\ UNCHANGED << execVars, probe, client >>

ManualObserverReturn(m) ==
    /\ manual[m].pc = "on_purchase"
    /\ manual' = [manual EXCEPT ![m] = IdleManual]
    /\ UNCHANGED << state, stop_event, task, purchase_mode, alerted, session_spent,
                    purchases_this_hour, stats, loops, stopper, now, opp_count,
                    observed, bought >>
    /\ UNCHANGED << execVars, probe, client >>

\* time passes
Tick ==
    /\ now < StartTick + MaxTicks
    /\ now' = now + 1
    /\ UNCHANGED << engineVars, execVars, probe, client >>

\* the engine under its lifecycle commands: start, stop, pause, resume
Next ==
    \/ Start
    \/ StopCall
    \/ StopTaskDone
    \/ StopTimeout
    \/ StopCancelled
    \/ Pause
    \/ Resume
    \/ \E t \in TaskIds : LoopIterate(t)
    \/ \E t \in TaskIds : LoopWoken(t)
    \/ \E t \in TaskIds : GetItemsReturn(t)
    \/ \E t \in TaskIds : GetResellersReturn(t)
    \/ \E t \in TaskIds : ItemSleepReturn(t)
    \/ \E t \in TaskIds : OnOpportunityReturn(t)
    \/ \E t \in TaskIds : PurchaseReturn(t)
    \/ \E t \in TaskIds : OnPurchaseReturn(t)

Spec == Init /\ [][Next]_vars

\* a started engine whose purchase mode is reconfigured and whose alerts are
\* answered by BUY NOW clicks, as time passes
PurchaseNext ==
    \/ Start
    \/ ConfigMode
    \/ \E t \in TaskIds : LoopIterate(t)
    \/ \E t \in TaskIds : GetItemsReturn(t)
    \/ \E t \in TaskIds : GetResellersReturn(t)
    \/ \E t \in TaskIds : ItemSleepReturn(t)
    \/ \E t \in TaskIds : OnOpportunityReturn(t)
    \/ \E t \in TaskIds : PurchaseReturn(t)
    \/ \E t \in TaskIds : OnPurchaseReturn(t)
    \/ \E m \in ManualIds : ManualCall(m)
    \/ \E m \in ManualIds : ManualPurchaseReturn(m)
    \/ \E m \in ManualIds : ManualObserverReturn(m)
    \/ Tick

PurchaseSpec == Init /\ [][PurchaseNext]_vars

\* the engine, started and stopped, while its sources and observers fail
FaultNext ==
    \/ Start
    \/ StopCall
    \/ StopTaskDone
    \/ StopTimeout
    \/ StopCancelled
    \/ \E t \in TaskIds : LoopIterate(t)
    \/ \E t \in TaskIds : LoopWoken(t)
    \/ \E t \in TaskIds : GetItemsReturn(t)
    \/ \E t \in TaskIds : GetResellersReturn(t)
    \/ \E t \in TaskIds : ItemSleepReturn(t)
    \/ \E t \in TaskIds : OnOpportunityReturn(t)
    \/ \E t \in TaskIds : PurchaseReturn(t)
    \/ \E t \in TaskIds : OnPurchaseReturn(t)
    \/ \E t \in TaskIds : ScanRaises(t)
    \/ \E t \in TaskIds : OnOpportunityRaises(t)
    \/ \E t \in TaskIds : OnPurchaseRaises(t)

FaultSpec == Init /\ [][FaultNext]_vars

(***************************************************************************)
(* PurchaseExecutor.execute, one action per await that returns.            *)
(***************************************************************************)
\* datetime(now.year, now.month, now.day, now.hour - 1 if now.hour > 0 else 23, ...)
OneHourAgo(t) ==
    IF Hour(t) > 0 THEN t - TicksPerHour
    ELSE t + (HoursPerDay - 1) * TicksPerHour

\* `recent` of _check_rate_limit, which it stores back in self._purchase_times
RecentPurchases(times, t) == KeepAfter(times, OneHourAgo(t))

CheckRateLimit(times, t) == Len(RecentPurchases(times, t)) < MaxPurchasesPerHour

CheckCooldown(last, t) ==
    IF last = None THEN TRUE
    ELSE t - last >= CooldownBetweenPurchases

PriceGateOk(listing) == ~(listing.price > MaxPricePerItem)

\* a budget gate that looks at what is spent and not at the price
BudgetGateSpentOnly(listing, spent) == ~(spent > TotalBudget)

BudgetGateOk(listing, spent) == ~(spent + listing.price > TotalBudget)

\* a re-verification that compares the product id alone
ListingExistsAnyPrice(current, listing) ==
    \E i \in DOMAIN current : current[i].product_id = listing.product_id

\* any(l.product_id == listing.product_id and l.price == listing.price ...)
ListingExists(current, listing) ==
    \E i \in DOMAIN current :
        current[i].product_id = listing.product_id /\ current[i].price = listing.price

Failed(outcome) == [success |-> FALSE, purchase_result |-> outcome, record |-> FALSE]

\* execute() from its call to its first await or its early return
ExecuteCall(c) ==
    /\ calls[c].pc = "idle"
    /\ Len(x_purchase_records) < MaxAttempts
    /\ \E listing \in FullListings(1) :
         IF ~PriceGateOk(listing)
         THEN /\ calls' = [calls EXCEPT ![c] = [pc |-> "returned", listing |-> listing,
                                                 current |-> << >>,
                                                 result |-> Failed("UNKNOWN_ERROR")]]
              /\ UNCHANGED x_purchase_times
         ELSE IF ~BudgetGateOk(listing, x_session_spent)
         THEN /\ calls' = [calls EXCEPT ![c] = [pc |-> "returned", listing |-> listing,
                                                 current |-> << >>,
                                                 result |-> Failed("INSUFFICIENT_FUNDS")]]
              /\ UNCHANGED x_purchase_times
         ELSE /\ x_purchase_times' = RecentPurchases(x_purchase_times, now)
              /\ IF ~CheckRateLimit(x_purchase_times, now)
                 THEN calls' = [calls EXCEPT ![c] = [pc |-> "returned", listing |-> listing,
                                                     current |-> << >>,
                                                     result |-> Failed("RATE_LIMITED")]]
                 ELSE IF ~CheckCooldown(x_last_purchase_time, now)
                 THEN calls' = [calls EXCEPT ![c] = [pc |-> "returned", listing |-> listing,
                                                     current |-> << >>,
                                                     result |-> Failed("RATE_LIMITED")]]
                 ELSE calls' = [calls EXCEPT ![c] = [pc |-> "get_resellers",
                                                     listing |-> listing,
                                                     current |-> << >>,
                                                     result |-> NoResult]]
    /\ UNCHANGED << x_session_spent, x_last_purchase_time, x_purchase_records >>
    /\ UNCHANGED << engineVars, now, probe, client >>

\* roblox.get_resellers(item.item_id, limit=10) returns the live listings
ExecuteVerified(c) ==
    /\ calls[c].pc = "get_resellers"
    /\ \E current \in FullListingLists(1) :
         IF ListingExists(current, calls[c].listing)
         THEN calls' = [calls EXCEPT ![c].pc = "purchase", ![c].current = current]
         ELSE calls' = [calls EXCEPT ![c].pc = "returned", ![c].current = current,
                                     ![c].result = Failed("LISTING_GONE")]
    /\ UNCHANGED << x_session_spent, x_purchase_times, x_last_purchase_time,
                    x_purchase_records >>
    /\ UNCHANGED << engineVars, now, probe, client >>

\* roblox.purchase answers: the record, and the tracking on success
ExecutePurchased(c) ==
    /\ calls[c].pc = "purchase"
    /\ \E result \in PurchaseResults :
         LET price == calls[c].listing.price
         IN /\ x_session_spent' = SpentAfter(x_session_spent, result, price)
            /\ x_purchase_times' = TimesAfter(x_purchase_times, result, now)
            /\ x_last_purchase_time' = IF result = "SUCCESS" THEN now
                                       ELSE x_last_purchase_time
            /\ x_purchase_records' = Append(x_purchase_records, result = "SUCCESS")
            /\ calls' = [calls EXCEPT ![c].pc = "returned",
                           ![c].result = [success |-> result = "SUCCESS",
                                          purchase_result |-> result, record |-> TRUE]]
    /\ UNCHANGED << engineVars, now, probe, client >>

\* the caller takes the ExecutionResult
ExecuteDone(c) ==
    /\ calls[c].pc = "returned"
    /\ calls' = [calls EXCEPT ![c] = IdleCall]
    /\ UNCHANGED << x_session_spent, x_purchase_times, x_last_purchase_time,
                    x_purchase_records >>
    /\ UNCHANGED << engineVars, now, probe, client >>

\* callers of one PurchaseExecutor, as time passes
ExecNext ==
    \/ \E c \in CallIds : ExecuteCall(c)
    \/ \E c \in CallIds : ExecuteVerified(c)
    \/ \E c \in CallIds : ExecutePurchased(c)
    \/ \E c \in CallIds : ExecuteDone(c)
    \/ Tick

ExecSpec == Init /\ [][ExecNext]_vars

(***************************************************************************)
(* PreFilter.filter and SnipeScorer.score, called on one item and price.   *)
(* The item and the price are drawn at the start, with the configuration   *)
(* the PreFilter and the SnipeScorer are constructed with.                 *)
(***************************************************************************)
ProbeValues == {0, 10000}
\* listing prices: 50, 40, 30, 20 and 10 percent below a value of 10000
ProbePrices == {5000, 6000, 7000, 8000, 9000}

Strategies == {"QUICK_FLIPS", "VALUE_PLAYS", "RARE_HUNTING"}
\* `strategies or config.strategy_flags`: the list in effect is never empty
StrategySets == (SUBSET Strategies) \ {{}}
UgcModes == {"INCLUDE", "EXCLUDE"}

\* items that differ in what the scorer reads
ScoreItems ==
    {[item_id |-> 1, value |-> v, rap |-> r, demand |-> d, trend |-> tr,
      projected |-> FALSE, hyped |-> h, rare |-> ra, copies_remaining |-> None,
      recent_sales_30d |-> sa, is_ugc |-> u, ugc_age_days |-> None] :
        v \in ProbeValues, r \in {0, 7000, 10000},
        d \in {DemandNONE, DemandLOW, DemandNORMAL, DemandHIGH, DemandAMAZING},
        tr \in {TrendLOWERING, TrendUNSTABLE, TrendSTABLE, TrendRAISING},
        h \in BOOLEAN, ra \in BOOLEAN, u \in BOOLEAN, sa \in {None, 4, 10, 30}}

\* items that differ in what the pre-filter reads
FilterItems ==
    {[item_id |-> 1, value |-> v, rap |-> v, demand |-> d, trend |-> tr,
      projected |-> pr, hyped |-> FALSE, rare |-> FALSE, copies_remaining |-> co,
      recent_sales_30d |-> sa, is_ugc |-> u, ugc_age_days |-> ag] :
        v \in ProbeValues, d \in {DemandNONE, DemandTERRIBLE, DemandNORMAL},
        tr \in {TrendLOWERING, TrendSTABLE}, pr \in BOOLEAN, co \in {None, 4, 5},
        sa \in {None, 0, 30}, u \in BOOLEAN, ag \in {None, 29, 30}}

\* a call about to be made: the arguments, the SnipeScorer's strategies and
\* the PreFilter's min_discount and max_price; no result yet
MkProbe(item, price, strategies, ugc_mode, min_discount, max_price) ==
    [pc |-> "input", item |-> item, price |-> price, strategies |-> strategies,
     ugc_mode |-> ugc_mode, min_discount |-> min_discount, max_price |-> max_price,
     reason |-> "NONE", score |-> None, tier |-> "NONE"]

\* the calls that vary what the scorer reads, under the default PreFilter
ScoreProbe(pr) ==
    \E it \in ScoreItems, p \in ProbePrices, st \in StrategySets, um \in UgcModes :
        pr = MkProbe(it, p, st, um, MinDiscount, 10000)

\* the calls that vary what the pre-filter reads and is constructed with
FilterProbe(pr) ==
    \E it \in FilterItems, p \in ProbePrices, um \in UgcModes,
       md \in {5, MinDiscount}, mp \in {6000, 10000} :
        pr = MkProbe(it, p, {"QUICK_FLIPS"}, um, md, mp)

ScorerInit ==
    /\ Constructed
    /\ ScoreProbe(probe) \/ FilterProbe(probe)
    /\ client = IdleClient(TRUE)

\* pre_filter.filter(item, listing.price) returns its FilterResult
FilterCall ==
    /\ probe.pc = "input"
    /\ probe' = [probe EXCEPT !.pc = "filtered",
                   !.reason = FilterReasonWith(probe.item, probe.price, probe.ugc_mode,
                                               probe.max_price, probe.min_discount)]
    /\ UNCHANGED << engineVars, execVars, now, client >>

\* scorer.score(item, listing.price) returns its ScoreResult, for an item
\* as it comes or, as in the scan cycle, for one that passed the filter
ScoreCall ==
    /\ \/ probe.pc = "input"
       \/ probe.pc = "filtered" /\ probe.reason = "PASSED"
    /\ probe' = [probe EXCEPT !.pc = "scored",
                   !.score = ScoreWith(probe.item, probe.price, probe.strategies,
                                       probe.ugc_mode),
                   !.tier = TierWith(probe.item, probe.price, probe.strategies,
                                     probe.ugc_mode)]
    /\ UNCHANGED << engineVars, execVars, now, client >>

ScorerNext ==
    \/ FilterCall
    \/ ScoreCall

ScorerSpec == ScorerInit /\ [][ScorerNext]_vars

(***************************************************************************)
(* RobloxClient.purchase(product_id, expected_price, expected_seller_id),  *)
(* one action per HTTP request that is answered. _refresh_xsrf stores      *)
(* utcnow() as the token's expiry, so `now < self._xsrf_expires` is false  *)
(* at the next call and every purchase() posts to /v1/logout first.        *)
(***************************************************************************)
\* what the /v1/logout POST of _refresh_xsrf can end in
RefreshAnswers == {"token", "no_token", "client_error", "timeout"}

\* what a POST to /v1/purchases/products/{product_id} can end in: the
\* status, with the message of a 400, whether a 403 carries an x-csrf-token
\* header, a 400 whose body is {"errors": []}, or no response at all
PostAnswers ==
    {"200", "400_insufficient", "400_already_own", "400_not_for_sale", "400_other",
     "400_errors_empty", "401", "403", "403_token", "429", "500",
     "timeout", "client_error"}

\* _parse_purchase_response; data.get("errors", [{}])[0] raises IndexError
\* on an empty list
ParsePurchaseResponse(answer) ==
    CASE answer = "200" -> "SUCCESS"
      [] answer = "400_insufficient" -> "INSUFFICIENT_FUNDS"
      [] answer = "400_already_own" -> "ALREADY_OWNED"
      [] answer = "400_not_for_sale" -> "LISTING_GONE"
      [] answer = "400_errors_empty" -> "RAISED"
      [] answer = "429" -> "RATE_LIMITED"
      [] answer \in {"401", "403", "403_token"} -> "AUTH_FAILED"
      [] OTHER -> "UNKNOWN_ERROR"

\* `except asyncio.TimeoutError` and `except aiohttp.ClientError` of purchase()
PostOutcome(answer) ==
    IF answer \in {"timeout", "client_error"} THEN "UNKNOWN_ERROR"
    ELSE ParsePurchaseResponse(answer)

ClientReturns(result) == [client EXCEPT !.pc = "returned", !.result = result]

\* `if response.status == 403` with a new token in the header: post again
ResendsOn403(answer) == answer = "403_token"

\* purchase() up to its first await, the /v1/logout POST of _refresh_xsrf
ClientPurchaseCall ==
    /\ client.pc = "idle"
    /\ client.done < MaxClientCalls
    /\ \E q \in ProductIds, p \in Prices :
         LET c == [client EXCEPT !.product_id = q, !.price = p, !.posts = 0,
                                 !.result = "NONE"]
         IN IF ~client.cookie
            THEN client' = [c EXCEPT !.pc = "returned", !.result = "AUTH_FAILED"]
            ELSE client' = [c EXCEPT !.pc = "refresh_xsrf"]
    /\ UNCHANGED << engineVars, execVars, now, probe >>

\* the /v1/logout POST is answered: the token of its header, or the token
\* kept from before; then the purchase POST is sent. A timeout of the
\* logout POST is not caught.
ClientRefreshReturn ==
    /\ client.pc = "refresh_xsrf"
    /\ \E answer \in RefreshAnswers :
         LET xsrf == IF answer = "token" THEN TRUE ELSE client.token
         IN IF answer = "timeout" THEN client' = ClientReturns("RAISED")
            ELSE IF ~xsrf THEN client' = ClientReturns("AUTH_FAILED")
            ELSE client' = [client EXCEPT !.pc = "post", !.token = TRUE, !.posts = 1]
    /\ UNCHANGED << engineVars, execVars, now, probe >>

\* the purchase POST is answered
ClientPostReturn ==
    /\ client.pc = "post"
    /\ \E answer \in PostAnswers :
         IF ResendsOn403(answer)
         THEN client' = [client EXCEPT !.pc = "retry_post", !.posts = @ + 1]
         ELSE IF answer \in {"403", "403_token"}
         THEN client' = ClientReturns("AUTH_FAILED")
         ELSE client' = ClientReturns(PostOutcome(answer))
    /\ UNCHANGED << engineVars, execVars, now, probe >>

\* the second purchase POST, sent with the new token, is answered
ClientRetryReturn ==
    /\ client.pc = "retry_post"
    /\ \E answer \in PostAnswers : client' = ClientReturns(PostOutcome(answer))
    /\ UNCHANGED << engineVars, execVars, now, probe >>

\* the caller takes the PurchaseResponse (or the exception)
ClientDone ==
    /\ client.pc = "returned"
    /\ client' = [client EXCEPT !.pc = "idle", !.done = @ + 1]
    /\ UNCHANGED << engineVars, execVars, now, probe >>

\* a client with or without a .ROBLOSECURITY cookie
ClientInit ==
    /\ Constructed
    /\ probe = NoProbe
    /\ \E cookie \in BOOLEAN : client = IdleClient(cookie)

ClientNext ==
    \/ ClientPurchaseCall
    \/ ClientRefreshReturn
    \/ ClientPostReturn
    \/ ClientRetryReturn
    \/ ClientDone

ClientSpec == ClientInit /\ [][ClientNext]_vars

(***************************************************************************)
(* The properties.                                                         *)
(***************************************************************************)
RECURSIVE SumPrices(_)
SumPrices(log) == IF log = << >> THEN 0 ELSE Head(log).price + SumPrices(Tail(log))

\* a purchase request goes out: both paths count it in purchases_attempted
\* just before they await roblox.purchase
RequestIssued == stats'.purchases_attempted = stats.purchases_attempted + 1

\* the successful purchases of the 60 minutes that end at t
BoughtInLastHour(t) ==
    Cardinality({i \in DOMAIN bought : bought[i].at > t - TicksPerHour /\ bought[i].at <= t})

LastBoughtAt == IF bought = << >> THEN None ELSE bought[Len(bought)].at

\* C1: in every reachable state the prices of the successful purchases of
\* the automatic and the manual path sum to at most the total budget.
C1_BudgetNeverExceeded == SumPrices(bought) <= TotalBudget

\* C2: at every time of day a purchase request passes the rate gate only
\* when fewer than max-purchases-per-hour successful purchases lie in the
\* 60 minutes before it.
C2_RateGateTrailingHour ==
    [][RequestIssued => BoughtInLastHour(now) < MaxPurchasesPerHour]_vars

\* execute() is called with `listing`, and returns at one of its four gates
ExecuteCalled(c) == calls[c].pc = "idle" /\ calls'[c].pc # "idle"

GateRejects(c) ==
    LET listing == calls'[c].listing
    IN \/ listing.price > MaxPricePerItem
       \/ x_session_spent + listing.price > TotalBudget
       \/ ~CheckRateLimit(x_purchase_times, now)
       \/ ~CheckCooldown(x_last_purchase_time, now)

\* no call of MarketSource: execute() returned without reaching an await,
\* and no purchase was recorded
ReturnedAtGate(c) ==
    /\ calls'[c].pc = "returned"
    /\ calls'[c].result.success = FALSE
    /\ calls'[c].result.record = FALSE
    /\ x_purchase_records' = x_purchase_records

BudgetOutcome(c) ==
    LET listing == calls'[c].listing
    IN (listing.price <= MaxPricePerItem /\ x_session_spent + listing.price > TotalBudget)
       => calls'[c].result.purchase_result = "INSUFFICIENT_FUNDS"

\* every timestamp of `new` is one of `old`, in the order of `old`
RECURSIVE IsSubSeq(_, _)
IsSubSeq(new, old) ==
    IF new = << >> THEN TRUE
    ELSE IF old = << >> THEN FALSE
    ELSE IF Head(new) = Head(old) THEN IsSubSeq(Tail(new), Tail(old))
    ELSE IsSubSeq(new, Tail(old))

C4_OneOpportunityPerKey == \A k \in Keys : opp_count[k] <= 1

\* a loop has scanned an answer in which a key it made an Opportunity for
\* in this cycle came a second time
C4_Witness ==
    \E t \in TaskIds :
        /\ loops[t].pc = "item_sleep"
        /\ \E i \in DOMAIN loops[t].opps :
             /\ KeyOf(loops[t].opps[i]) \in loops[t].skipped
             /\ opp_count[KeyOf(loops[t].opps[i])] = 1

\* C5: when stop() returns, the state is STOPPED and no scan loop task is
\* left alive.
C5_StopEndsTheLoop ==
    [][(stopper.pc # "idle" /\ stopper'.pc = "idle") =>
          (state' = "STOPPED" /\ \A t \in TaskIds : loops'[t].pc \in {"none", "done"})]_vars

\* C6: a scan loop is spawned, and the stats are reset, only by a start()
\* called in state STOPPED or ERROR.
C6_StartOnlyWhenStopped ==
    [][(\E t \in TaskIds : loops[t].pc # "start" /\ loops'[t].pc = "start")
          => state \in {"STOPPED", "ERROR"}]_vars

\* the loop sends a request to CatalogSource or MarketSource
LoopIssues(t) ==
    /\ loops'[t] # loops[t]
    /\ loops'[t].pc \in {"get_items", "get_resellers", "purchase"}

\* C7: while the state is PAUSED no scan loop issues a catalog fetch, a
\* listing fetch or an automatic purchase.
C7_PausedLoopIsQuiet ==
    [][state = "PAUSED" => \A t \in TaskIds : ~LoopIssues(t)]_vars

\* the loop handles the opportunity at the head of its list
Handles(t) ==
    /\ loops[t].pc = "on_opportunity"
    /\ loops'[t] # loops[t]
    /\ stopper' = stopper

\* C8: for every opportunity the loop handles, _execute_purchase is
\* dispatched exactly when the mode in effect is FULL_AUTO and the score is
\* at least the snipe threshold, or the mode is HYBRID and the tier is
\* EXCELLENT; a purchase request goes out only after that dispatch.
C8_ModeDecidesAutoBuy ==
    [][\A t \in TaskIds : Handles(t) =>
          LET opp == Head(loops[t].opps)
              due == \/ purchase_mode = "FULL_AUTO" /\ opp.score >= SnipeThreshold
                     \/ purchase_mode = "HYBRID" /\ opp.tier = "EXCELLENT"
          IN /\ loops'[t].should_buy <=> due
             /\ loops'[t].pc = "purchase" => due]_vars

\* in FULL_AUTO an opportunity that scores exactly the threshold is bought
C8_Witness ==
    \E t \in TaskIds :
        /\ loops[t].pc = "purchase"
        /\ loops[t].should_buy
        /\ purchase_mode = "FULL_AUTO"
        /\ Head(loops[t].opps).score = SnipeThreshold

\* the listings fetched again hold the listing's product id at its price
StillListed(c) ==
    \E i \in DOMAIN calls[c].current :
        /\ calls[c].current[i].product_id = calls[c].listing.product_id
        /\ calls[c].current[i].price = calls[c].listing.price

\* C9: execute() calls MarketSource.purchase only when the listings it
\* fetched again hold the same product id at the same price; when they do
\* not, it returns LISTING_GONE without a purchase.
C9_PurchaseOnlyIfStillListed ==
    \A c \in CallIds :
        /\ calls[c].pc = "purchase" => StillListed(c)
        /\ (calls[c].pc = "returned" /\ calls[c].result.record) => StillListed(c)
        /\ (calls[c].pc = "returned" /\ ~calls[c].result.record
              /\ calls[c].result.purchase_result = "LISTING_GONE") => ~StillListed(c)

\* a purchase goes out after a re-fetch that also holds another listing
C9_Witness ==
    \E c \in CallIds :
        /\ calls[c].pc = "purchase"
        /\ Len(calls[c].current) = 2
        /\ \E i \in DOMAIN calls[c].current :
             calls[c].current[i].product_id # calls[c].listing.product_id

\* C10: every purchase request of the engine is issued at least the
\* cooldown after its last successful purchase, as execute()'s cooldown
\* gate demands.
C10_EngineKeepsCooldown ==
    [][RequestIssued => CheckCooldown(LastBoughtAt, now)]_vars

\* the first of execute()'s four synchronous gates that a call with the
\* listing of calls'[c] fails, in the order of the specification
FirstFailingGate(c) ==
    LET listing == calls'[c].listing
    IN IF listing.price > MaxPricePerItem THEN "price"
       ELSE IF x_session_spent + listing.price > TotalBudget THEN "budget"
       ELSE IF ~CheckRateLimit(x_purchase_times, now) THEN "rate"
       ELSE IF ~CheckCooldown(x_last_purchase_time, now) THEN "cooldown"
       ELSE "none"

\* the outcome the specification gives each gate; PurchaseResult has one
\* budget value, INSUFFICIENT_FUNDS
OutcomeOfGate(gate) ==
    CASE gate \in {"price", "budget"} -> "INSUFFICIENT_FUNDS"
      [] gate \in {"rate", "cooldown"} -> "RATE_LIMITED"
      [] gate = "listing" -> "LISTING_GONE"

\* C11: execute() evaluates price, budget, rate, cooldown and listing
\* re-verification in this order and returns the outcome of the first gate
\* that fails: the budget outcome for the price and the budget gate,
\* RATE_LIMITED for the rate and the cooldown gate, LISTING_GONE for the
\* re-verification; a price or budget failure leaves the rate check unrun.
C11_FirstFailingGateDecides ==
    [][\A c \in CallIds :
          /\ ExecuteCalled(c) =>
               IF FirstFailingGate(c) = "none"
               THEN calls'[c].pc = "get_resellers"
               ELSE /\ calls'[c].pc = "returned"
                    /\ calls'[c].result.purchase_result
                          = OutcomeOfGate(FirstFailingGate(c))
                    /\ FirstFailingGate(c) \in {"price", "budget"}
                          => x_purchase_times' = x_purchase_times
          /\ (calls[c].pc = "get_resellers" /\ calls'[c].pc = "returned")
               => calls'[c].result.purchase_result = OutcomeOfGate("listing")]_vars

\* MarketSource.purchase answers call c with SUCCESS
PurchaseSucceeds(c) ==
    /\ calls[c].pc = "purchase"
    /\ calls'[c].pc = "returned"
    /\ calls'[c].result.purchase_result = "SUCCESS"

\* on success: exactly the price, exactly one timestamp, the time of success
SuccessUpdates(c) ==
    /\ x_session_spent' = x_session_spent + calls[c].listing.price
    /\ x_purchase_times' = Append(x_purchase_times, now)
    /\ x_last_purchase_time' = now

\* C12, as stated: session-spent, the purchase timestamps and the
\* last-purchase time change only in the step in which MarketSource.purchase
\* reports success, which adds the listing price and one timestamp; every
\* other step of execute() leaves the three unchanged.
C12_CountersChangeOnlyOnSuccess ==
    [][/\ \A c \in CallIds : PurchaseSucceeds(c) => SuccessUpdates(c)
       /\ (~\E c \in CallIds : PurchaseSucceeds(c)) =>
             /\ x_session_spent' = x_session_spent
             /\ x_last_purchase_time' = x_last_purchase_time
             /\ x_purchase_times' = x_purchase_times]_vars

\* the call passes the price and the budget gate, so the rate check runs
RateCheckRuns(c) ==
    /\ ExecuteCalled(c)
    /\ FirstFailingGate(c) \notin {"price", "budget"}

\* C12, amended: session-spent and the last-purchase time change only on
\* success; a timestamp is added only on success, exactly one; without a
\* success the timestamps change only when a call runs the rate check, and
\* then only by losing entries.
C12_CountersGrowOnlyOnSuccess ==
    [][/\ \A c \in CallIds : PurchaseSucceeds(c) => SuccessUpdates(c)
       /\ (~\E c \in CallIds : PurchaseSucceeds(c)) =>
             /\ x_session_spent' = x_session_spent
             /\ x_last_purchase_time' = x_last_purchase_time
             /\ IsSubSeq(x_purchase_times', x_purchase_times)
             /\ (x_purchase_times' # x_purchase_times)
                   => \E c \in CallIds : RateCheckRuns(c)]_vars

\* a purchase that failed left the counters alone, and the purchase after it
\* succeeded: the price is spent and one timestamp is kept
C12_Witness ==
    \E c \in CallIds :
        /\ calls[c].pc = "returned"
        /\ calls[c].result.success
        /\ x_purchase_records = << FALSE, TRUE >>
        /\ x_session_spent = calls[c].listing.price
        /\ x_purchase_times = << x_last_purchase_time >>

\* C13: every execute() call that has returned carries an audit record in
\* its ExecutionResult, whatever its outcome.
C13_AuditRecordOnEveryCall ==
    \A c \in CallIds : calls[c].pc = "returned" => calls[c].result.record

\* C14: a purchase succeeds only when the cooldown has elapsed since the
\* last successful purchase; a call that passes the gates before the
\* cooldown gate is returned RATE_LIMITED without a purchase when the
\* cooldown has not elapsed at its start, and passes the gate when it has.
C14_CooldownBetweenPurchases ==
    [][\A c \in CallIds :
          /\ PurchaseSucceeds(c) => CheckCooldown(x_last_purchase_time, now)
          /\ (ExecuteCalled(c) /\ FirstFailingGate(c) = "cooldown") =>
                /\ ReturnedAtGate(c)
                /\ calls'[c].result.purchase_result = "RATE_LIMITED"
          /\ (ExecuteCalled(c) /\ FirstFailingGate(c) = "none") =>
                calls'[c].pc = "get_resellers"]_vars

\* C15: when an await of the scan cycle raises, the loop adds exactly one to
\* stats.errors, leaves the engine state and every other field alone, and
\* goes to the same poll wait a finished cycle goes to: it is over only when
\* the stop event is set.
C15_CycleErrorIsCounted ==
    [][\A t \in TaskIds : ScanRaises(t) =>
          /\ stats' = [stats EXCEPT !.errors = stats.errors + 1]
          /\ state' = state
          /\ loops'[t] = IF stop_event THEN DoneLoop ELSE LoopAt("idle_wait", 0, << >>)
          /\ \A u \in TaskIds \ {t} : loops'[u] = loops[u]
          /\ alerted' = alerted /\ session_spent' = session_spent]_vars

\* after a failed cycle the only loop of the engine is in a later cycle, at
\* its purchase request
C15_Witness ==
    /\ stats.errors = 1
    /\ state = "RUNNING"
    /\ \E t \in TaskIds :
         /\ loops[t].pc = "purchase"
         /\ \A u \in TaskIds \ {t} : loops[u].pc = "none"

\* what the loop does with the opportunity at the head of its list once the
\* opportunity observer is over
DecisionTaken(t) ==
    LET opp == Head(loops[t].opps)
        due == \/ purchase_mode = "FULL_AUTO" /\ opp.score >= SnipeThreshold
               \/ purchase_mode = "HYBRID" /\ opp.tier = "EXCELLENT"
        goes == due /\ CheckBudget(opp.price, session_spent)
                    /\ CheckPurchaseRate(purchases_this_hour, now)
    IN /\ loops'[t].should_buy = due
       /\ IF goes
          THEN /\ loops'[t].pc = "purchase"
               /\ loops'[t].opps = loops[t].opps
               /\ stats' = [stats EXCEPT !.purchases_attempted = @ + 1]
          ELSE /\ loops'[t].pc \in {"on_opportunity", "idle_wait", "done"}
               /\ loops'[t].opps = IF loops'[t].pc = "on_opportunity"
                                   THEN Tail(loops[t].opps) ELSE << >>
               /\ stats' = stats

\* the loop goes on to the opportunities that remain
CycleContinues(t) ==
    /\ loops'[t].pc = IF Tail(loops[t].opps) # << >> THEN "on_opportunity"
                      ELSE IF stop_event THEN "done" ELSE "idle_wait"
    /\ loops'[t].pc = "on_opportunity" => loops'[t].opps = Tail(loops[t].opps)
    /\ stats' = stats

\* C16: when the opportunity observer raises, the auto-buy decision for the
\* same opportunity is taken as after a normal return and the cycle goes on;
\* when the purchase observer raises, the cycle goes on with the remaining
\* opportunities; in both cases stats.errors, the dedup set and the session
\* counters are what a normal return leaves.
C16_ObserverFaultIsContained ==
    [][\A t \in TaskIds :
          /\ OnOpportunityRaises(t) =>
                /\ DecisionTaken(t)
                /\ alerted' = alerted /\ session_spent' = session_spent
                /\ state' = state
          /\ OnPurchaseRaises(t) =>
                /\ CycleContinues(t)
                /\ alerted' = alerted /\ session_spent' = session_spent
                /\ purchases_this_hour' = purchases_this_hour
                /\ state' = state]_vars

\* the opportunity observer raised, the purchase it was followed by has
\* succeeded, and no error was counted
C16_Witness ==
    \E t \in TaskIds :
        /\ loops[t].pc = "on_purchase"
        /\ loops[t].caught
        /\ session_spent = Head(loops[t].opps).price
        /\ stats.errors = 0

\* C17: every score() result has a score in 0..100 and the tier its score
\* alone decides: EXCELLENT iff score >= 85, GOOD iff 70..84, RISKY iff
\* 50..69, REJECT iff score <= 49.
C17_ScoreRangeAndTier ==
    probe.pc = "scored" =>
        /\ probe.score \in 0..100
        /\ probe.tier = "EXCELLENT" <=> probe.score >= 85
        /\ probe.tier = "GOOD" <=> (70 <= probe.score /\ probe.score <= 84)
        /\ probe.tier = "RISKY" <=> (50 <= probe.score /\ probe.score <= 69)
        /\ probe.tier = "REJECT" <=> probe.score <= 49

\* a score of 100 that the clamp cut down from a larger sum
C17_Witness ==
    /\ probe.pc = "scored"
    /\ probe.score = 100
    /\ probe.tier = "EXCELLENT"
    /\ BaseScoreWith(probe.item, probe.price, probe.ugc_mode)
         + StrategyModifier(probe.item, probe.price, probe.strategies) > 100

\* the discount (1 - price/value) x 100 of the call is below t percent
DiscountBelow(pr, t) == (pr.item.value - pr.price) * 100 < t * pr.item.value

\* C18: a score() call whose discount is below 20 percent, or whose item has
\* no positive value, returns score 0 and tier REJECT, whatever the item's
\* other attributes, the strategies and the PreFilter's minimum discount.
C18_LowDiscountScoresZero ==
    (probe.pc = "scored" /\ (probe.item.value <= 0 \/ DiscountBelow(probe, 20)))
        => (probe.score = 0 /\ probe.tier = "REJECT")

\* a listing 10 percent below value passed a PreFilter with a minimum
\* discount of 5 and was scored 0, with demand NORMAL and a stable trend
C18_Witness ==
    /\ probe.pc = "scored"
    /\ probe.reason = "PASSED"
    /\ probe.min_discount = 5
    /\ probe.item.value = 10000 /\ probe.price = 9000
    /\ probe.item.demand = DemandNORMAL /\ probe.item.trend = TrendSTABLE
    /\ probe.score = 0

\* the rules of the pre-filter in their order, and when each matches
RuleOrder ==
    << "PROJECTED", "NO_VALUE", "NO_DEMAND", "TERRIBLE_DEMAND", "LOWERING_TREND",
       "UGC_EXCLUDED", "UGC_TOO_NEW", "TOO_ILLIQUID", "NO_SALES", "PRICE_TOO_HIGH",
       "INSUFFICIENT_DISCOUNT" >>

RuleMatches(rule, pr) ==
    CASE rule = "PROJECTED" -> pr.item.projected
      [] rule = "NO_VALUE" -> pr.item.value <= 0
      [] rule = "NO_DEMAND" -> pr.item.demand = DemandNONE
      [] rule = "TERRIBLE_DEMAND" -> pr.item.demand = DemandTERRIBLE
      [] rule = "LOWERING_TREND" -> pr.item.trend = TrendLOWERING
      [] rule = "UGC_EXCLUDED" -> pr.item.is_ugc /\ pr.ugc_mode = "EXCLUDE"
      [] rule = "UGC_TOO_NEW" -> /\ pr.item.is_ugc
                                 /\ pr.item.ugc_age_days # None
                                 /\ pr.item.ugc_age_days < MinUgcAgeDays
      [] rule = "TOO_ILLIQUID" -> /\ pr.item.copies_remaining # None
                                  /\ pr.item.copies_remaining < MinCopies
      [] rule = "NO_SALES" -> pr.item.recent_sales_30d = 0
      [] rule = "PRICE_TOO_HIGH" -> pr.price > pr.max_price
      [] rule = "INSUFFICIENT_DISCOUNT" -> DiscountBelow(pr, pr.min_discount)

FirstMatch(pr) ==
    IF \E i \in DOMAIN RuleOrder : RuleMatches(RuleOrder[i], pr)
    THEN RuleOrder[CHOOSE i \in DOMAIN RuleOrder :
                      /\ RuleMatches(RuleOrder[i], pr)
                      /\ \A j \in 1..(i - 1) : ~RuleMatches(RuleOrder[j], pr)]
    ELSE "PASSED"

\* C19: filter() returns the reason of the first rule that matches, in the
\* order PROJECTED, NO_VALUE, NO_DEMAND, TERRIBLE_DEMAND, LOWERING_TREND,
\* UGC_EXCLUDED, UGC_TOO_NEW, TOO_ILLIQUID, NO_SALES, PRICE_TOO_HIGH,
\* INSUFFICIENT_DISCOUNT, and PASSED exactly when none matches; a projected
\* item gets PROJECTED whatever its price and its other attributes.
C19_FirstMatchingRuleWins ==
    probe.pc = "filtered" =>
        /\ probe.reason = FirstMatch(probe)
        /\ probe.item.projected => probe.reason = "PROJECTED"

\* the discount points of the specification's table
DiscountPoints(pr) ==
    IF ~DiscountBelow(pr, 50) THEN 30
    ELSE IF ~DiscountBelow(pr, 40) THEN 25
    ELSE IF ~DiscountBelow(pr, 30) THEN 20
    ELSE IF ~DiscountBelow(pr, 20) THEN 10
    ELSE 0

\* the base score: the five components, the bonuses and the penalties
TableBase(pr) ==
      DiscountPoints(pr) + DemandScore(pr.item) + TrendScore(pr.item)
    + LiquidityScore(pr.item) + StabilityScore(pr.item)
    + (IF pr.item.rare /\ pr.item.demand >= DemandHIGH THEN 5 ELSE 0)
    + (IF ~pr.item.is_ugc THEN 3 ELSE 0)
    + (IF pr.item.hyped THEN -5 ELSE 0)
    + (IF pr.item.is_ugc /\ pr.ugc_mode = "INCLUDE" THEN -10 ELSE 0)

\* Scenario A: value 10000, price 5000, demand HIGH, trend STABLE, rap
\* 10000, 30 sales, classic, not rare, not hyped
ScenarioA(pr) ==
    /\ pr.item.value = 10000 /\ pr.price = 5000 /\ pr.item.rap = 10000
    /\ pr.item.demand = DemandHIGH /\ pr.item.trend = TrendSTABLE
    /\ pr.item.recent_sales_30d = 30
    /\ ~pr.item.is_ugc /\ ~pr.item.rare /\ ~pr.item.hyped

\* C20: a score() call with a discount of at least 20 percent returns
\* clamp(base + modifiers of the active strategies, 0, 100), the base being
\* the sum of the table's components, bonuses and penalties; Scenario A has
\* base 90 and tier EXCELLENT under every set of strategies.
C20_ScoreIsClampedSum ==
    (probe.pc = "scored" /\ probe.item.value > 0 /\ ~DiscountBelow(probe, 20)) =>
        /\ probe.score = Clamp(TableBase(probe)
                               + StrategyModifier(probe.item, probe.price,
                                                  probe.strategies), 0, 100)
        /\ ScenarioA(probe) => (TableBase(probe) = 90 /\ probe.tier = "EXCELLENT")

\* the loop passes the opportunity at the head of its list to
\* _handle_opportunity, which may dispatch its purchase
HandlingStarts(t) ==
    /\ loops'[t].pc = "on_opportunity"
    /\ loops[t].pc # "on_opportunity" \/ loops'[t].opps # loops[t].opps

\* no (item id, price) is handled, and so dispatched, a second time
NoSecondHandling ==
    [][\A t \in TaskIds :
          HandlingStarts(t) => KeyOf(Head(loops'[t].opps)) \notin observed]_vars

\* C21: nothing retries on its own. One purchase call sends at most one
\* purchase request upstream whatever the answer, and the scan loop never
\* dispatches a purchase for an (item id, price) it has handled before,
\* whether that purchase failed or was skipped.
C21_NoAutomaticRetry ==
    [][/\ client'.posts <= 1
       /\ \A t \in TaskIds :
            HandlingStarts(t) => KeyOf(Head(loops'[t].opps)) \notin observed]_vars

\* the opportunity qualifies for auto-buy under the purchase mode in effect
QualifiesForAutoBuy(opp) ==
    \/ purchase_mode = "FULL_AUTO" /\ opp.score >= SnipeThreshold
    \/ purchase_mode = "HYBRID" /\ opp.tier = "EXCELLENT"

\* C22: for every opportunity that qualifies for auto-buy the scan loop
\* dispatches one purchase attempt and calls the purchase observer once with
\* its outcome, whatever the outcome: a qualifying opportunity leaves
\* _handle_opportunity for the purchase, and the purchase for the observer,
\* also when the budget or the rate gate rejects it.
C22_OutcomeReachesObserver ==
    [][\A t \in TaskIds :
          /\ (Handles(t) /\ QualifiesForAutoBuy(Head(loops[t].opps))) =>
                \/ loops'[t].pc = "purchase" /\ loops'[t].opps = loops[t].opps
                \/ loops'[t].pc = "on_purchase" /\ loops'[t].opps = loops[t].opps
          /\ (loops[t].pc = "purchase" /\ loops'[t] # loops[t]) =>
                (loops'[t].pc = "on_purchase" /\ loops'[t].opps = loops[t].opps)]_vars

\* the purchase attempts that have passed their gate checks and have not yet
\* updated the session counters: they are suspended on MarketSource
EngineAttempts ==
    Cardinality({t \in TaskIds : loops[t].pc = "purchase"})
      + Cardinality({m \in ManualIds : manual[m].pc = "purchase"})

ExecutorAttempts ==
    Cardinality({c \in CallIds : calls[c].pc \in {"get_resellers", "purchase"}})

\* C23: no two purchase attempts of one engine or one executor are at the
\* same time between their first gate check and their counter update; the
\* automatic and the manual path run gate checks, purchase and counter
\* update under one guard.
C23_OneAttemptAtATime ==
    /\ EngineAttempts <= 1
    /\ ExecutorAttempts <= 1

\* the loop starts a listing fetch or an automatic purchase
LoopStartsFetchOrPurchase(t) ==
    /\ loops'[t] # loops[t]
    /\ loops'[t].pc \in {"get_resellers", "purchase"}

\* C24: once stop() has set the cancellation signal, the scan loop starts no
\* further listing fetch and no further automatic purchase: the signal is
\* looked at before every candidate's network call and not only at the top
\* of the loop and in the idle wait.
C24_NoFetchAfterStop ==
    [][stop_event => \A t \in TaskIds : ~LoopStartsFetchOrPurchase(t)]_vars

\* the loop is in _handle_opportunity or _execute_purchase for the head of
\* its list; the rest of the list waits
Handling(l) == l.pc \in {"on_opportunity", "purchase", "on_purchase"}

NonIncreasing(opps) ==
    \A i, j \in DOMAIN opps : i < j => opps[i].score >= opps[j].score

\* the same opportunities, each as often
SameOpportunities(a, b) ==
    /\ Len(a) = Len(b)
    /\ \A x \in {a[i] : i \in DOMAIN a} \cup {b[i] : i \in DOMAIN b} :
          Cardinality({i \in DOMAIN a : a[i] = x}) = Cardinality({i \in DOMAIN b : b[i] = x})

\* C25: in a scan cycle the opportunities are handled only after the last
\* selected candidate was iterated, all of them, in non-increasing score;
\* the purchase of an opportunity is attempted only after the opportunity
\* observer was called for it, and only for the opportunity that scores
\* highest among those of the cycle not yet handled.
C25_HandledInScoreOrder ==
    [][\A t \in TaskIds :
          /\ (~Handling(loops[t]) /\ Handling(loops'[t])) =>
                /\ loops[t].idx = Len(Candidates)
                /\ loops[t].pc \in {"get_resellers", "item_sleep"}
                /\ loops'[t].pc = "on_opportunity"
                /\ SameOpportunities(loops'[t].opps, loops[t].opps)
          /\ Handling(loops'[t]) => NonIncreasing(loops'[t].opps)
          /\ (loops'[t].pc = "purchase" /\ loops[t].pc # "purchase") =>
                /\ loops[t].pc = "on_opportunity"
                /\ loops'[t].opps = loops[t].opps
                /\ KeyOf(Head(loops[t].opps)) \in observed
          /\ (Handling(loops[t]) /\ Handling(loops'[t]) /\ loops'[t].opps # loops[t].opps)
                => loops'[t].opps = Tail(loops[t].opps)]_vars

\* the loop attempts the purchase of the opportunity it found last, which
\* scores highest; the one it found first waits behind it
C25_Witness ==
    \E t \in TaskIds :
        /\ loops[t].pc = "purchase"
        /\ Len(loops[t].opps) = 2
        /\ loops[t].opps[1].item_id = Candidates[2].item_id
        /\ loops[t].opps[2].item_id = Candidates[1].item_id
        /\ loops[t].opps[1].score > loops[t].opps[2].score

\* C26: every Opportunity constructed is for an (item, price) the pre-filter
\* passed and the scorer gave a tier other than REJECT; its key is in the
\* dedup set from then on; no step, stop() and start() included, removes a
\* key from the dedup set, and a key is in the set only if an Opportunity was
\* constructed for it.
C26_OpportunityPassedAndDeduped ==
    [][/\ alerted \subseteq alerted'
       /\ \A k \in Keys :
            /\ k \in alerted' <=> opp_count'[k] > 0
            /\ opp_count'[k] > opp_count[k] =>
                  /\ FilterReason(ItemById(k[1]), k[2]) = "PASSED"
                  /\ TierOf(Score(ItemById(k[1]), k[2])) # "REJECT"
       /\ \A t \in TaskIds : \A i \in DOMAIN loops'[t].opps :
            /\ KeyOf(loops'[t].opps[i]) \in alerted'
            /\ loops'[t].opps[i].tier # "REJECT"]_vars

\* the engine was stopped and started again, and its new loop skips a
\* listing whose key the loop before it recorded
C26_Witness ==
    \E t, u \in TaskIds :
        /\ loops[u].pc = "done"
        /\ loops[t].pc = "item_sleep"
        /\ loops[t].skipped # {}
        /\ loops[t].opps = << >>
        /\ state = "RUNNING"

\* a step of a manual_purchase call
ManualStep == manual' # manual

\* pause() or resume() takes effect
PauseOrResume == {state, state'} = {"RUNNING", "PAUSED"} /\ loops' = loops

\* C27: the EngineStats counters are written by the scan loop task alone: a
\* manual purchase, pause() and resume() leave every counter unchanged, and
\* the counters change only in a step of a scan loop task (or the start()
\* that spawns it).
C27_LoopIsSoleStatsWriter ==
    [][/\ ManualStep => stats' = stats
       /\ PauseOrResume => stats' = stats
       /\ stats' # stats => \E t \in TaskIds : loops'[t] # loops[t]]_vars

AliveLoops == {t \in TaskIds : Alive(t)}

\* C28: whatever start(), stop(), pause() and resume() calls were made, at
\* most one scan loop task is alive, and none is alive in state STOPPED,
\* which stop() sets as it returns and the next start() leaves.
C28_AtMostOneLoopAlive ==
    /\ Cardinality(AliveLoops) <= 1
    /\ state = "STOPPED" => AliveLoops = {}

\* the successful purchases that stats.purchases_successful counts: the
\* last ones of the run
CountedPurchases ==
    SubSeq(bought, Len(bought) - stats.purchases_successful + 1, Len(bought))

\* C29: in every reachable state purchases_successful is at most
\* purchases_attempted, and total_spent is the sum of the prices of the
\* successful purchases that purchases_successful counts, however the scan
\* loop, suspended purchases and the stats reset of start() interleave.
C29_StatsAreConsistent ==
    /\ stats.purchases_successful <= stats.purchases_attempted
    /\ stats.purchases_successful <= Len(bought)
    /\ stats.total_spent = SumPrices(CountedPurchases)

\* a step of start(), stop(), pause() or resume(): they, and no step of a
\* loop or a purchase, write the state, the stop event, self._task or the
\* position of stop()
LifecycleStep ==
    << state, stop_event, task, stopper >>' # << state, stop_event, task, stopper >>

\* C30: start(), stop(), pause() and resume() leave the session-spent
\* amount and the purchase timestamps as they are, so the caps accumulate
\* over the restarts of an engine while start() resets the stats, and
\* stats.total_spent never exceeds session-spent.
C30_SessionOutlivesRestart ==
    [][/\ LifecycleStep => /\ session_spent' = session_spent
                           /\ purchases_this_hour' = purchases_this_hour
       /\ stats'.total_spent <= session_spent']_vars

\* after a restart the stats are fresh, the 2 spent before it still count,
\* and the new loop's qualifying opportunity was stopped at the gates
C30_Witness ==
    /\ session_spent = 2
    /\ purchases_this_hour # << >>
    /\ stats.total_spent = 0
    /\ stats.purchases_attempted = 0
    /\ \E t \in TaskIds : loops[t].pc = "idle_wait" /\ loops[t].should_buy

====
